---- MODULE Spec2Model ----
(***************************************************************************)
(* Sewage grid automation: identify_necessary_manholes and main of         *)
(* "projects/Sewage grid automation/main.py".                              *)
(*                                                                         *)
(* The pipe table is a list of rows (Start Node, Stop Node).  The graph    *)
(* is a networkx.Graph: per node an insertion-ordered neighbour list; a    *)
(* self-loop counts 2 in the degree.  The junction set is a Python set;    *)
(* its iteration order is not fixed by the language, so the outer for      *)
(* loop takes the remaining junctions in any order.                        *)
(***************************************************************************)
EXTENDS Integers, Sequences, FiniteSets, TLC

\* ---- bounds -------------------------------------------------------------
NumCore == 3
MaxTail == 10

NumNodes == NumCore + MaxTail
Labels == 1..NumNodes
NoNode == 0

\* A missing Start Node or Stop Node: read_csv gives NaN, one float object.
Null == NumNodes + 1

\* Whatever can be a node of the graph.
Keys == Labels \cup {Null}

\* ---- the pipe tables that are read --------------------------------------
\* The network is a core of NumCore manholes with any pipes among the
\* catalog below, and one run of up to MaxTail manholes leaving the last
\* core manhole.  Catalog rows for core label i: a self-loop on the first
\* label, the pipe to the next label and the pipe to the label after that.
RowsFrom(i) ==
    (IF i = 1 THEN << <<i, i>> >> ELSE << >>)
    \o (IF i + 1 <= NumCore THEN << <<i, i + 1>> >> ELSE << >>)
    \o (IF i + 2 <= NumCore THEN << <<i, i + 2>> >> ELSE << >>)

RECURSIVE RowCatalogUpTo(_)
RowCatalogUpTo(i) ==
    IF i = 0 THEN << >> ELSE RowCatalogUpTo(i - 1) \o RowsFrom(i)

RowCatalog == RowCatalogUpTo(NumCore)

RECURSIVE PickRows(_, _)
PickRows(S, k) ==
    IF k = 0 THEN << >>
    ELSE PickRows(S, k - 1) \o (IF k \in S THEN << RowCatalog[k] >> ELSE << >>)

TailRows(k) == [i \in 1..k |-> <<NumCore + i - 1, NumCore + i>>]

RECURSIVE Reverse(_)
Reverse(s) ==
    IF s = << >> THEN << >>
    ELSE Reverse(Tail(s)) \o << <<Head(s)[2], Head(s)[1]>> >>

\* A pipe table: the chosen core rows and then the run, read top-down, or
\* the same rows bottom-up with Start Node and Stop Node exchanged.
PipeTables ==
    LET fwd == {PickRows(S, Len(RowCatalog)) \o TailRows(k) :
                    S \in SUBSET (1..Len(RowCatalog)), k \in 0..MaxTail}
    IN  fwd \cup {Reverse(t) : t \in fwd}

\* ---- networkx.Graph -----------------------------------------------------
SeqToSet(s) == {s[i] : i \in 1..Len(s)}

EmptyGraph == [nodes |-> {}, adj |-> [n \in Keys |-> << >>]]

AddNeighbor_again(a, u, v) == [a EXCEPT ![u] = Append(@, v)]

\* adj[u][v] = adj[v][u] = {}: a dict keeps the position of a key it has.
AddNeighbor(a, u, v) ==
    IF v \in SeqToSet(a[u]) THEN a ELSE [a EXCEPT ![u] = Append(@, v)]

add_edge(g, u, v) ==
    [nodes |-> g.nodes \cup {u, v},
     adj |-> AddNeighbor(AddNeighbor(g.adj, u, v), v, u)]

RECURSIVE from_pandas_edgelist(_)
from_pandas_edgelist(rows) ==
    IF rows = << >> THEN EmptyGraph
    ELSE LET n == Len(rows)
         IN  add_edge(from_pandas_edgelist(SubSeq(rows, 1, n - 1)),
                      rows[n][1], rows[n][2])

\* G.degree(n): the number of neighbours, a self-loop counted twice.
degree(g, n) ==
    Len(g.adj[n]) + (IF n \in SeqToSet(g.adj[n]) THEN 1 ELSE 0)

neighbors(g, n) == g.adj[n]

edges(g) == {e \in Keys \X Keys :
                e[1] <= e[2] /\ e[1] \in g.nodes /\ e[2] \in SeqToSet(g.adj[e[1]])}

\* tuple(sorted((a, b)))
sorted_pair(a, b) == IF a <= b THEN <<a, b>> ELSE <<b, a>>

\* sorted((a, b)) compares the two: a label (str) against NaN (float) is a
\* TypeError; NaN against NaN is not.
sort_raises(a, b) == (a = Null) /= (b = Null)

\* ---- identify_necessary_manholes: the pure parts -------------------------
\* Line 20: return set()
empty_result_placeholder == {NoNode}

empty_result == {}

critical_manholes_not_leaf(g) == {n \in g.nodes : degree(g, n) /= 1}

critical_manholes_branches(g) == {n \in g.nodes : degree(g, n) > 2}

critical_manholes(g) == {n \in g.nodes : degree(g, n) /= 2}

starts_chain_unchecked(g, nd, nb, visited) == degree(g, nb) = 2

starts_chain_any(g, nd, nb, visited) == sorted_pair(nd, nb) \notin visited

starts_chain(g, nd, nb, visited) ==
    degree(g, nb) = 2 /\ sorted_pair(nd, nb) \notin visited

next_node_options_unfiltered(g, c, p) == neighbors(g, c)

next_node_options(g, c, p) == SelectSeq(neighbors(g, c), LAMBDA n : n /= p)

keeps_position_shifted(i) == i % 4 = 1

keeps_position_fifth(i) == i % 5 = 0

\* enumerate(chain) is zero-based: chain[i + 1] here is chain[i] there.
keeps_position(i) == i % 4 = 0

sample_chain_all(ch) == {ch[i] : i \in 1..Len(ch)}

sample_chain(ch) == {ch[i + 1] : i \in {j \in 0..(Len(ch) - 1) : keeps_position(j)}}

final_edge_unsorted(p, c) == {<<p, c>>}

final_edge_unmarked(p, c) == {}

final_edge(p, c) == {sorted_pair(p, c)}

update_necessary_replace(nec, add) == add

update_necessary(nec, add) == nec \cup add

\* ---- identify_necessary_manholes as a function of the graph ----------------
\* Lines 35-42: the walk from p to c; the chain and the consumed edges.
RECURSIVE walk_from(_, _, _, _, _)
walk_from(g, p, c, ch, vis) ==
    IF degree(g, c) = 2
    THEN LET opts == next_node_options(g, c, p)
             marked == vis \cup {sorted_pair(p, c)}
         IN  IF opts = << >>
             THEN [chain |-> Append(ch, c), visited |-> marked \cup final_edge(p, c)]
             ELSE walk_from(g, c, opts[1], Append(ch, c), marked)
    ELSE [chain |-> ch, visited |-> vis \cup final_edge(p, c)]

\* Lines 31-47 for one junction: st is the consumed and the sampled set.
RECURSIVE visit_neighbors(_, _, _, _)
visit_neighbors(g, nd, todo, st) ==
    IF todo = << >> THEN st
    ELSE IF starts_chain(g, nd, Head(todo), st.visited)
         THEN LET w == walk_from(g, nd, Head(todo), << >>, st.visited)
              IN  visit_neighbors(g, nd, Tail(todo),
                      [visited |-> w.visited,
                       additional |-> st.additional \cup sample_chain(w.chain)])
         ELSE visit_neighbors(g, nd, Tail(todo), st)

\* Lines 30-53 for every order in which the set can hand out its junctions.
RECURSIVE pass_results(_, _, _)
pass_results(g, todo, st) ==
    IF todo = {} THEN {update_necessary(critical_manholes(g), st.additional)}
    ELSE UNION {pass_results(g, todo \ {n},
                             visit_neighbors(g, n, neighbors(g, n), st)) : n \in todo}

\* Lines 16-53: every set the function can return for the graph g.
possible_results(g) ==
    IF g.nodes = {} THEN {empty_result}
    ELSE pass_results(g, critical_manholes(g), [visited |-> {}, additional |-> {}])

\* Lines 30-47 for the junctions of ord, in that order.
RECURSIVE order_state(_, _, _)
order_state(g, ord, st) ==
    IF ord = << >> THEN st
    ELSE order_state(g, Tail(ord),
                     visit_neighbors(g, Head(ord), neighbors(g, Head(ord)), st))

\* Lines 16-53: the set a call returns when the outer for takes the junctions
\* in the order ord.
result_for_order(g, ord) ==
    IF g.nodes = {} THEN empty_result
    ELSE update_necessary(critical_manholes(g),
             order_state(g, ord, [visited |-> {}, additional |-> {}]).additional)

\* Lines 27-28: the consumed and the sampled set of a call; vis and add are
\* what an earlier call left behind.
call_state_kept(vis, add) == [visited |-> vis, additional |-> add]

call_state(vis, add) == [visited |-> {}, additional |-> {}]

\* Lines 44-47: the sampled nodes of a chain go to additional_mh, not to the
\* set the outer for iterates.
collect_into_result(nec, add, sampled) ==
    [necessary |-> nec \cup sampled, additional |-> add]

collect(nec, add, sampled) == [necessary |-> nec, additional |-> add \cup sampled]

\* ---- main: the pure parts -------------------------------------------------
row_selected_either(row, labels) == row[1] \in labels \/ row[2] \in labels

row_selected(row, labels) == row[1] \in labels /\ row[2] \in labels

filter_pipes(rows, labels) == SelectSeq(rows, LAMBDA r : row_selected(r, labels))

filter_manholes(rows, labels) == SelectSeq(rows, LAMBDA l : l \in labels)

AllManholes == [i \in 1..NumNodes |-> i]

\* Lines 117-118: DataFrame.to_csv writes the rows in table order.
to_csv(rows) == rows

\* Line 143: the pipe table handed to the original plot.
original_plot_pipes(pipes) == pipes

\* Line 153: the pipe table handed to the simplified plot; simplified is
\* simplified_pipes_df, which the call does not use.
simplified_plot_pipes_filtered(pipes, simplified) == simplified

simplified_plot_pipes(pipes, simplified) == pipes

\* Lines 63-73: a pipe row is drawn when both its endpoints have coordinates
\* in all_mh.
drawn_pipes(plot_pipes, all_mh) ==
    SelectSeq(plot_pipes, LAMBDA r : r[1] \in SeqToSet(all_mh) /\ r[2] \in SeqToSet(all_mh))

\* Lines 55-95: what one plot is given and what it shows.
create_and_save_plot(plot_pipes, plot_mh, all_mh) ==
    [plot_pipes_df |-> plot_pipes,
     lines |-> drawn_pipes(plot_pipes, all_mh),
     manholes |-> SeqToSet(plot_mh) \cap SeqToSet(all_mh)]

\* ---- water_station_analyzer.py: the pure parts -----------------------------
NumStations == 2

StationIds == 1..NumStations

\* 'enabled' of a station's configuration: true, false, or no such key.
EnabledSettings == {"true", "false", "absent"}

\* What a data directory holds: its csv files in sorted order, each one
\* readable with a level column ("ok"), without a level column ("no_level"),
\* or failing while it is read or parsed ("bad").
CsvLists ==
    {<< >>, <<"bad">>, <<"no_level">>, <<"ok">>, <<"bad", "ok">>,
     <<"ok", "no_level", "ok">>}

\* A data directory: not there, there but os.listdir fails on it, or listed.
DataDirs ==
    {[dir |-> "missing", files |-> << >>], [dir |-> "unreadable", files |-> << >>]}
    \cup {[dir |-> "listed", files |-> f] : f \in CsvLists}

\* fails: creating a chart or exporting to Excel raises for this station.
StationConfigs ==
    {[enabled |-> e, data |-> d, fails |-> f] :
        e \in EnabledSettings, d \in DataDirs, f \in BOOLEAN}

StationTables == UNION {[1..k -> StationConfigs] : k \in 0..NumStations}

\* Line 431: station_config.get('enabled', True).
is_enabled(cfg) == cfg.enabled /= "false"

\* Line 121: os.listdir raises something other than FileNotFoundError.
listdir_raises(cfg) == cfg.data.dir = "unreadable"

\* Lines 131-166 from file k on: the months appended to monthly_data.
RECURSIVE read_csv_files(_, _)
read_csv_files(files, k) ==
    IF k > Len(files) THEN << >>
    ELSE (IF files[k] = "ok" THEN << k >> ELSE << >>) \o read_csv_files(files, k + 1)

\* Lines 114-168: the monthly data of a station whose directory can be read.
process_station_csv(cfg) ==
    IF cfg.data.dir = "missing" THEN << >> ELSE read_csv_files(cfg.data.files, 1)

\* Lines 441-469: an exception leaves the try block of the station.
station_raises(cfg) ==
    \/ listdir_raises(cfg)
    \/ process_station_csv(cfg) /= << >> /\ cfg.fails

\* Lines 489-491: after the handler, the loop goes on with the next station
\* of the n stations.
continue_after_error_stops(i, n) == n + 1

continue_after_error(i, n) == i + 1

\* Lines 472-477: the entry stored for a station.
store_result(results, id, months) == (id :> [monthly_data |-> months]) @@ results

\* ---- x_y_automation.py: the pure parts ---------------------------------------
MaxRows == 2

None == 0 - 1

Raised == 0 - 2

OldElevation == 5

\* What the Open-Elevation request of a row meets.
Responses ==
    {[kind |-> k, elevation |-> None] :
        k \in {"timeout", "http_error", "bad_json", "no_results", "null",
               "not_a_number"}}
    \cup {[kind |-> "value", elevation |-> e] : e \in {0, 7}}

ElevationRows ==
    {[xy |-> c, old |-> OldElevation, resp |-> r] :
        c \in {"valid", "invalid"}, r \in Responses}

ElevationTables == UNION {[1..k -> ElevationRows] : k \in 0..MaxRows}

\* Lines 28-35: a statement of the try block raises.
raises_in_try(resp) == resp.kind \in {"timeout", "http_error", "bad_json", "not_a_number"}

\* Line 39: except Exception catches whatever the try block raised.
except_catches_requests_only(resp) == resp.kind \in {"timeout", "http_error"}

except_catches(resp) == TRUE

\* Lines 13-41: the elevation, None, or Raised for an exception that escapes.
get_elevation_from_coordinates(resp) ==
    IF raises_in_try(resp)
    THEN (IF except_catches(resp) THEN None ELSE Raised)
    ELSE IF resp.kind = "value" THEN resp.elevation ELSE None

\* Lines 43-69: the converted coordinates, or the fallback (40.0, -74.0).
convert_xy_to_latlon(xy) == IF xy = "valid" THEN "converted" ELSE "fallback"

\* ---- setup_stations.py: the pure parts ---------------------------------------
DirStates == {"missing", "unlistable", "ok"}

\* out_exists: the station's output directory is already there.
SetupStations ==
    {[enabled |-> e, data_dir |-> d, out_exists |-> o] :
        e \in EnabledSettings, d \in DirStates, o \in BOOLEAN}

\* present: station_config.json is there; writable: os.makedirs succeeds.
SetupConfigs ==
    {[present |-> FALSE, base_exists |-> FALSE, writable |-> TRUE,
      stations |-> << >>, rain |-> "missing"]}
    \cup {c \in [present : {TRUE}, base_exists : BOOLEAN, writable : BOOLEAN,
                stations : UNION {[1..k -> SetupStations] : k \in 0..NumStations},
                rain : DirStates] :
             \A i \in 1..Len(c.stations) : c.stations[i].out_exists => c.base_exists}

\* Line 46: station_config.get('enabled', True).
setup_enabled(st) == st.enabled /= "false"

\* Lines 58-71 and 82-93: the directory exists and os.listdir succeeds.
dir_ready_exists(state) == state /= "missing"

dir_ready(state) == state = "ok"

\* ---- state ---------------------------------------------------------------
VARIABLES
    pipes_df,            \* the pipe table read by main
    mh_df,               \* the manhole table read by main (labels)
    pc,                  \* where the program stands
    G,                   \* the graph of identify_necessary_manholes
    necessary_mh,        \* its result set
    visited_chains,      \* the consumed edges, as sorted pairs
    additional_mh,       \* sampled chain nodes, merged at the end
    pending,             \* junctions the outer for has not yet taken
    node,                \* outer loop variable
    nbrs,                \* what the inner for has not yet taken
    neighbor,            \* inner loop variable
    chain, prev, curr,   \* the walk
    chains,              \* every chain walked so far: origin, interior, terminal
    consumption,         \* per edge, how many times it was marked consumed
    appended,            \* per node, how many times it was appended to a chain
    necessary_mh_labels, \* main: the returned set
    simplified_mh_df,    \* main: the manhole rows kept
    simplified_pipes_df, \* main: the pipe rows kept
    original_pipes_csv,  \* main: the rows written to original_pipes.csv
    plots,               \* main: what each call of create_and_save_plot drew
    order,               \* the junctions in the order for_node_traced took them
    run,                 \* 1 for the first run of the program, 2 for the second
    first_run,           \* what the first run produced
    stations,            \* analyzer: the stations of the configuration, in order
    st_pc,               \* analyzer: where analyze_all_stations stands
    st_i,                \* analyzer: the station the loop is at
    all_results,         \* analyzer: the result dict, station id to entry
    attempted,           \* analyzer: the stations whose try block was entered
    skipped,             \* analyzer: the stations skipped as disabled
    el_rows,             \* elevations: the rows of the table as read
    el_pc,               \* elevations: where update_elevations stands
    el_i,                \* elevations: the row the loop is at
    elevation_col,       \* elevations: the column 'Elevation (Ground) (m)'
    lookups,             \* elevations: per row taken, what was asked and returned
    su_cfg,              \* setup: the configuration file and the directories
    su_pc,               \* setup: where setup_station_directories stands
    su_i,                \* setup: the station the loop is at
    all_ready,           \* setup: the flag returned
    created,             \* setup: directories made, 0 for the base directory
    su_result            \* setup: the value returned

sewage == <<pipes_df, mh_df, pc, G, necessary_mh, visited_chains, additional_mh,
            pending, node, nbrs, neighbor, chain, prev, curr, chains,
            consumption, appended, necessary_mh_labels, simplified_mh_df,
            simplified_pipes_df, original_pipes_csv, plots, order, run,
            first_run>>

analyzer == <<stations, st_pc, st_i, all_results, attempted, skipped>>

elevations == <<el_rows, el_pc, el_i, elevation_col, lookups>>

setup == <<su_cfg, su_pc, su_i, all_ready, created, su_result>>

others == <<analyzer, elevations, setup>>

vars == <<sewage, analyzer, elevations, setup>>

input == <<pipes_df, mh_df>>
walk == <<chain, prev, curr>>
record == <<chains, consumption, appended, order>>
output == <<necessary_mh_labels, simplified_mh_df, simplified_pipes_df,
           original_pipes_csv, plots>>
runs == <<run, first_run>>

EdgeKeys == {e \in Keys \X Keys : e[1] <= e[2]}

NoRun == [labels |-> {}, pipes |-> << >>, consumed |-> {}]

Fresh ==
    /\ pc = "main"
    /\ G = EmptyGraph
    /\ necessary_mh = {}
    /\ visited_chains = {}
    /\ additional_mh = {}
    /\ pending = {}
    /\ node = NoNode
    /\ nbrs = << >>
    /\ neighbor = NoNode
    /\ chain = << >>
    /\ prev = NoNode
    /\ curr = NoNode
    /\ chains = {}
    /\ consumption = [e \in EdgeKeys |-> 0]
    /\ appended = [n \in Keys |-> 0]
    /\ necessary_mh_labels = {}
    /\ simplified_mh_df = << >>
    /\ simplified_pipes_df = << >>
    /\ original_pipes_csv = << >>
    /\ plots = << >>
    /\ order = << >>

\* The analyzer, not started, with no station configured.
AnalyzerIdle ==
    /\ stations = << >>
    /\ st_pc = "start"
    /\ st_i = 1
    /\ all_results = << >>
    /\ attempted = << >>
    /\ skipped = {}

\* update_elevations, not started, on a table without rows.
ElevationsIdle ==
    /\ el_rows = << >>
    /\ el_pc = "start"
    /\ el_i = 1
    /\ elevation_col = << >>
    /\ lookups = << >>

\* The setup script, not started, without a configuration file.
SetupIdle ==
    /\ su_cfg = [present |-> FALSE, base_exists |-> FALSE, writable |-> TRUE,
                 stations |-> << >>, rain |-> "missing"]
    /\ su_pc = "start"
    /\ su_i = 1
    /\ all_ready = TRUE
    /\ created = {}
    /\ su_result = FALSE

\* The sewage program, not started, on an empty pipe table.
SewageIdle ==
    /\ pipes_df = << >>
    /\ mh_df = AllManholes
    /\ run = 1
    /\ first_run = NoRun
    /\ Fresh

Init ==
    /\ pipes_df \in PipeTables
    /\ mh_df = AllManholes
    /\ run = 1
    /\ first_run = NoRun
    /\ Fresh
    /\ AnalyzerIdle /\ ElevationsIdle /\ SetupIdle

\* ---- identify_necessary_manholes ------------------------------------------
\* Lines 16-28: build the graph; return set() for no node, else the
\* critical manholes and two empty sets.
identify_begin ==
    /\ pc = "main"
    /\ LET g == from_pandas_edgelist(pipes_df)
       IN  /\ G' = g
           /\ IF g.nodes = {}
              THEN /\ necessary_mh' = empty_result
                   /\ pending' = {}
                   /\ pc' = "returned"
              ELSE /\ necessary_mh' = critical_manholes(g)
                   /\ pending' = critical_manholes(g)
                   /\ pc' = "for_node"
    /\ visited_chains' = call_state(visited_chains, additional_mh).visited
    /\ additional_mh' = call_state(visited_chains, additional_mh).additional
    /\ UNCHANGED <<input, node, nbrs, neighbor, walk, record, output, runs, others>>

\* Line 30: the outer for takes the next junction of the set.
for_node ==
    /\ pc = "for_node"
    /\ \E n \in pending :
          /\ node' = n
          /\ pending' = pending \ {n}
          /\ nbrs' = neighbors(G, n)
    /\ pc' = "for_neighbor"
    /\ UNCHANGED <<input, G, necessary_mh, visited_chains, additional_mh,
                   neighbor, walk, record, output, runs, others>>

\* Line 30, with the junction taken written down in order.
for_node_traced ==
    /\ pc = "for_node"
    /\ \E n \in pending :
          /\ node' = n
          /\ pending' = pending \ {n}
          /\ nbrs' = neighbors(G, n)
          /\ order' = Append(order, n)
    /\ pc' = "for_neighbor"
    /\ UNCHANGED <<input, G, necessary_mh, visited_chains, additional_mh,
                   neighbor, walk, chains, consumption, appended, output, runs, others>>

\* Line 31, neighbours exhausted: back to the outer for.
for_neighbor_end ==
    /\ pc = "for_neighbor"
    /\ nbrs = << >>
    /\ pc' = "for_node"
    /\ UNCHANGED <<input, G, necessary_mh, visited_chains, additional_mh,
                   pending, node, nbrs, neighbor, walk, record, output, runs, others>>

\* Line 32 evaluates sorted((node, neighbor)) only for a neighbour of degree 2.
condition_raises(g, nd, nb) == degree(g, nb) = 2 /\ sort_raises(nd, nb)

\* Lines 31-32, condition false: the neighbour is passed over.
for_neighbor_skip ==
    /\ pc = "for_neighbor"
    /\ nbrs /= << >>
    /\ ~ condition_raises(G, node, Head(nbrs))
    /\ ~ starts_chain(G, node, Head(nbrs), visited_chains)
    /\ neighbor' = Head(nbrs)
    /\ nbrs' = Tail(nbrs)
    /\ UNCHANGED <<input, pc, G, necessary_mh, visited_chains, additional_mh,
                   pending, node, walk, record, output, runs, others>>

\* Lines 31-34, condition true: a walk starts.
for_neighbor_start ==
    /\ pc = "for_neighbor"
    /\ nbrs /= << >>
    /\ ~ condition_raises(G, node, Head(nbrs))
    /\ starts_chain(G, node, Head(nbrs), visited_chains)
    /\ neighbor' = Head(nbrs)
    /\ nbrs' = Tail(nbrs)
    /\ chain' = << >>
    /\ prev' = node
    /\ curr' = Head(nbrs)
    /\ pc' = "while"
    /\ UNCHANGED <<input, G, necessary_mh, visited_chains, additional_mh,
                   pending, node, record, output, runs, others>>

Mark(cons, S) == [e \in EdgeKeys |-> cons[e] + (IF e \in S THEN 1 ELSE 0)]

\* Lines 42-47 on leaving the while with chain ch, consumed set vis and
\* consumption counts cons: the final edge is marked, the chain is sampled.
leave_while(ch, vis, cons) ==
    /\ visited_chains' = vis \cup final_edge(prev, curr)
    /\ consumption' = Mark(cons, final_edge(prev, curr))
    /\ necessary_mh' = collect(necessary_mh, additional_mh, sample_chain(ch)).necessary
    /\ additional_mh' = collect(necessary_mh, additional_mh, sample_chain(ch)).additional
    /\ chains' = chains \cup {[origin |-> node, interior |-> ch, terminal |-> curr]}
    /\ pc' = "for_neighbor"

\* Lines 35-41: one iteration of the while; a break (no option) leaves it.
while_step ==
    /\ pc = "while"
    /\ degree(G, curr) = 2
    /\ ~ sort_raises(prev, curr)
    /\ LET ch == Append(chain, curr)
           vis == visited_chains \cup {sorted_pair(prev, curr)}
           cons == Mark(consumption, {sorted_pair(prev, curr)})
           opts == next_node_options(G, curr, prev)
       IN  /\ chain' = ch
           /\ appended' = [appended EXCEPT ![curr] = @ + 1]
           /\ IF opts = << >>
              THEN /\ leave_while(ch, vis, cons)
                   /\ UNCHANGED <<prev, curr>>
              ELSE /\ visited_chains' = vis
                   /\ consumption' = cons
                   /\ prev' = curr
                   /\ curr' = opts[1]
                   /\ UNCHANGED <<necessary_mh, additional_mh, chains, pc>>
    /\ UNCHANGED <<input, G, pending, node, nbrs, neighbor, order, output, runs, others>>

\* Lines 35, 42-47: the while condition fails.
while_exit ==
    /\ pc = "while"
    /\ degree(G, curr) /= 2
    /\ ~ sort_raises(prev, curr)
    /\ leave_while(chain, visited_chains, consumption)
    /\ UNCHANGED <<input, G, pending, node, nbrs, neighbor, walk, appended,
                   order, output, runs, others>>

\* Lines 32, 37, 42: sorted() raises TypeError; nothing catches it, the
\* program ends there.
type_error ==
    /\ \/ pc = "for_neighbor" /\ nbrs /= << >> /\ condition_raises(G, node, Head(nbrs))
       \/ pc = "while" /\ sort_raises(prev, curr)
    /\ pc' = "raised"
    /\ UNCHANGED <<input, G, necessary_mh, visited_chains, additional_mh,
                   pending, node, nbrs, neighbor, walk, record, output, runs, others>>

\* Lines 50-53: every junction was taken; merge and return.
identify_return ==
    /\ pc = "for_node"
    /\ pending = {}
    /\ necessary_mh' = update_necessary(necessary_mh, additional_mh)
    /\ pc' = "returned"
    /\ UNCHANGED <<input, G, visited_chains, additional_mh, pending, node,
                   nbrs, neighbor, walk, record, output, runs, others>>

\* ---- main -----------------------------------------------------------------
\* Lines 113-156: the returned labels select the manhole and pipe rows; the
\* tables are written and the two plots are drawn.
main_filter ==
    /\ pc = "returned"
    /\ necessary_mh_labels' = necessary_mh
    /\ simplified_mh_df' = filter_manholes(mh_df, necessary_mh)
    /\ simplified_pipes_df' = filter_pipes(pipes_df, necessary_mh)
    /\ original_pipes_csv' = to_csv(pipes_df)
    /\ plots' = << create_and_save_plot(original_plot_pipes(pipes_df), mh_df, mh_df),
                   create_and_save_plot(
                       simplified_plot_pipes(pipes_df, filter_pipes(pipes_df, necessary_mh)),
                       filter_manholes(mh_df, necessary_mh), mh_df) >>
    /\ pc' = "done"
    /\ UNCHANGED <<input, G, necessary_mh, visited_chains, additional_mh,
                   pending, node, nbrs, neighbor, walk, record, runs, others>>

\* The program is run a second time on the same tables; the names bound by
\* the finished call of identify_necessary_manholes are rebound by lines 27-28
\* of the next call.
run_again ==
    /\ pc = "done"
    /\ run = 1
    /\ run' = 2
    /\ first_run' = [labels |-> necessary_mh_labels, pipes |-> simplified_pipes_df,
                     consumed |-> visited_chains]
    /\ pc' = "main"
    /\ G' = EmptyGraph
    /\ necessary_mh' = {}
    /\ pending' = {}
    /\ node' = NoNode
    /\ nbrs' = << >>
    /\ neighbor' = NoNode
    /\ chain' = << >>
    /\ prev' = NoNode
    /\ curr' = NoNode
    /\ chains' = {}
    /\ consumption' = [e \in EdgeKeys |-> 0]
    /\ appended' = [n \in Keys |-> 0]
    /\ necessary_mh_labels' = {}
    /\ simplified_mh_df' = << >>
    /\ simplified_pipes_df' = << >>
    /\ original_pipes_csv' = << >>
    /\ plots' = << >>
    /\ order' = << >>
    /\ UNCHANGED <<input, visited_chains, additional_mh, others>>

Next ==
    \/ identify_begin
    \/ for_node
    \/ for_neighbor_end
    \/ for_neighbor_skip
    \/ for_neighbor_start
    \/ while_step
    \/ while_exit
    \/ identify_return
    \/ main_filter

Spec == Init /\ [][Next]_vars

\* The same, with the program run twice on the same tables.
NextTwoRuns == Next \/ run_again

SpecTwoRuns == Init /\ [][NextTwoRuns]_vars

\* Two runs, with the order in which each takes the junctions written down.
NextTraced ==
    \/ identify_begin
    \/ for_node_traced
    \/ for_neighbor_end
    \/ for_neighbor_skip
    \/ for_neighbor_start
    \/ while_step
    \/ while_exit
    \/ identify_return
    \/ main_filter
    \/ run_again

SpecTraced == Init /\ [][NextTraced]_vars

\* The program on a pipe table whose last row repeats its first or its last
\* row, as it is or with Start Node and Stop Node exchanged.
Flip(row) == <<row[2], row[1]>>

DupTables ==
    UNION {{t \o << d >> : d \in {t[1], Flip(t[1]), t[Len(t)], Flip(t[Len(t)])}} :
              t \in PipeTables \ {<< >>}}

InitDup ==
    /\ pipes_df \in DupTables
    /\ mh_df = AllManholes
    /\ run = 1
    /\ first_run = NoRun
    /\ Fresh
    /\ AnalyzerIdle /\ ElevationsIdle /\ SetupIdle

SpecDup == InitDup /\ [][Next]_vars

\* The program on a pipe table with a row that misses an endpoint.
NullRows == {<<Null, Null>>}
            \cup {<<Null, n>> : n \in 1..NumCore} \cup {<<n, Null>> : n \in 1..NumCore}

NullTables == {t \o << r >> : t \in PipeTables, r \in NullRows}

InitNull ==
    /\ pipes_df \in NullTables
    /\ mh_df = AllManholes
    /\ run = 1
    /\ first_run = NoRun
    /\ Fresh
    /\ AnalyzerIdle /\ ElevationsIdle /\ SetupIdle

NextNull == Next \/ type_error

SpecNull == InitNull /\ [][NextNull]_vars

\* The program on a manhole table that has every label or misses label 1.
ManholeTables == {AllManholes, Tail(AllManholes)}

InitPlot ==
    /\ pipes_df \in PipeTables
    /\ mh_df \in ManholeTables
    /\ run = 1
    /\ first_run = NoRun
    /\ Fresh
    /\ AnalyzerIdle /\ ElevationsIdle /\ SetupIdle

SpecPlot == InitPlot /\ [][Next]_vars

TypeOK ==
    /\ pc \in {"main", "for_node", "for_neighbor", "while", "returned", "done",
              "raised"}
    /\ necessary_mh \subseteq Keys
    /\ additional_mh \subseteq Keys
    /\ visited_chains \subseteq EdgeKeys
    /\ run \in 1..2

\* ---- water_station_analyzer.py: analyze_all_stations ------------------------
\* Lines 423-428: the rain data is read (process_rain_data catches what its
\* files raise) and the result dict starts empty.
analyze_begin ==
    /\ st_pc = "start"
    /\ st_pc' = "loop"
    /\ st_i' = 1
    /\ all_results' = << >>
    /\ UNCHANGED <<stations, attempted, skipped, sewage, elevations, setup>>

\* Lines 430-433: a disabled station is skipped.
station_skip ==
    /\ st_pc = "loop"
    /\ st_i <= Len(stations)
    /\ ~ is_enabled(stations[st_i])
    /\ skipped' = skipped \cup {st_i}
    /\ st_i' = st_i + 1
    /\ UNCHANGED <<stations, st_pc, all_results, attempted, sewage, elevations, setup>>

\* Lines 435-445: the station has no monthly data.
station_no_data ==
    /\ st_pc = "loop"
    /\ st_i <= Len(stations)
    /\ is_enabled(stations[st_i])
    /\ ~ station_raises(stations[st_i])
    /\ process_station_csv(stations[st_i]) = << >>
    /\ attempted' = Append(attempted, st_i)
    /\ st_i' = st_i + 1
    /\ UNCHANGED <<stations, st_pc, all_results, skipped, sewage, elevations, setup>>

\* Lines 435-469, 489-491: an exception in the try block is logged and the
\* loop continues.
station_error ==
    /\ st_pc = "loop"
    /\ st_i <= Len(stations)
    /\ is_enabled(stations[st_i])
    /\ station_raises(stations[st_i])
    /\ attempted' = Append(attempted, st_i)
    /\ st_i' = continue_after_error(st_i, Len(stations))
    /\ UNCHANGED <<stations, st_pc, all_results, skipped, sewage, elevations, setup>>

\* Lines 435-487: charts and workbook are made and the entry is stored.
station_done ==
    /\ st_pc = "loop"
    /\ st_i <= Len(stations)
    /\ is_enabled(stations[st_i])
    /\ ~ station_raises(stations[st_i])
    /\ process_station_csv(stations[st_i]) /= << >>
    /\ attempted' = Append(attempted, st_i)
    /\ all_results' = store_result(all_results, st_i, process_station_csv(stations[st_i]))
    /\ st_i' = st_i + 1
    /\ UNCHANGED <<stations, st_pc, skipped, sewage, elevations, setup>>

\* Lines 493-498: the loop is over, all_results is returned.
analyze_return ==
    /\ st_pc = "loop"
    /\ st_i > Len(stations)
    /\ st_pc' = "returned"
    /\ UNCHANGED <<stations, st_i, all_results, attempted, skipped, sewage,
                   elevations, setup>>

InitAnalyzer ==
    /\ stations \in StationTables
    /\ st_pc = "start"
    /\ st_i = 1
    /\ all_results = << >>
    /\ attempted = << >>
    /\ skipped = {}
    /\ SewageIdle /\ ElevationsIdle /\ SetupIdle

NextAnalyzer ==
    \/ analyze_begin
    \/ station_skip
    \/ station_no_data
    \/ station_error
    \/ station_done
    \/ analyze_return

SpecAnalyzer == InitAnalyzer /\ [][NextAnalyzer]_vars

\* ---- x_y_automation.py: update_elevations -------------------------------------
\* Lines 81-84: the loop over df.iterrows() starts.
update_begin ==
    /\ el_pc = "start"
    /\ el_pc' = "loop"
    /\ el_i' = 1
    /\ UNCHANGED <<el_rows, elevation_col, lookups, sewage, analyzer, setup>>

\* Lines 84-105: one row; the column is written when the lookup returned an
\* elevation. An exception that leaves get_elevation_from_coordinates ends
\* update_elevations.
update_row ==
    /\ el_pc = "loop"
    /\ el_i <= Len(el_rows)
    /\ LET latlon == convert_xy_to_latlon(el_rows[el_i].xy)
           elevation == get_elevation_from_coordinates(el_rows[el_i].resp)
       IN  /\ lookups' = Append(lookups, [index |-> el_i, latlon |-> latlon,
                                          elevation |-> elevation])
           /\ IF elevation = Raised
              THEN /\ el_pc' = "raised"
                   /\ UNCHANGED <<el_i, elevation_col>>
              ELSE /\ elevation_col' =
                          IF elevation /= None
                          THEN [elevation_col EXCEPT ![el_i] = elevation]
                          ELSE elevation_col
                   /\ el_i' = el_i + 1
                   /\ UNCHANGED el_pc
    /\ UNCHANGED <<el_rows, sewage, analyzer, setup>>

\* Line 107: every row was taken, df is returned.
update_return ==
    /\ el_pc = "loop"
    /\ el_i > Len(el_rows)
    /\ el_pc' = "returned"
    /\ UNCHANGED <<el_rows, el_i, elevation_col, lookups, sewage, analyzer, setup>>

InitElevations ==
    /\ el_rows \in ElevationTables
    /\ el_pc = "start"
    /\ el_i = 1
    /\ elevation_col = [k \in 1..Len(el_rows) |-> el_rows[k].old]
    /\ lookups = << >>
    /\ SewageIdle /\ AnalyzerIdle /\ SetupIdle

NextElevations ==
    \/ update_begin
    \/ update_row
    \/ update_return

SpecElevations == InitElevations /\ [][NextElevations]_vars

\* ---- setup_stations.py: setup_station_directories ------------------------------
\* Lines 18-23: no station_config.json, False is returned.
setup_no_config ==
    /\ su_pc = "start"
    /\ ~ su_cfg.present
    /\ su_result' = FALSE
    /\ su_pc' = "returned"
    /\ UNCHANGED <<su_cfg, su_i, all_ready, created, sewage, analyzer, elevations>>

\* Lines 18-41: the configuration is loaded, the base output directory is
\* made if it is not there (os.makedirs may raise), all_ready starts True.
setup_begin ==
    /\ su_pc = "start"
    /\ su_cfg.present
    /\ IF ~ su_cfg.base_exists /\ ~ su_cfg.writable
       THEN /\ su_pc' = "raised"
            /\ UNCHANGED created
       ELSE /\ su_pc' = "loop"
            /\ created' = IF su_cfg.base_exists THEN created ELSE created \cup {0}
    /\ all_ready' = TRUE
    /\ su_i' = 1
    /\ UNCHANGED <<su_cfg, su_result, sewage, analyzer, elevations>>

\* Lines 43-55: a disabled station is passed over.
setup_station_skip ==
    /\ su_pc = "loop"
    /\ su_i <= Len(su_cfg.stations)
    /\ ~ setup_enabled(su_cfg.stations[su_i])
    /\ su_i' = su_i + 1
    /\ UNCHANGED <<su_cfg, su_pc, all_ready, created, su_result, sewage, analyzer,
                   elevations>>

\* Lines 43-77: an enabled station's data directory is checked and its
\* output directory is made if it is not there (os.makedirs may raise).
setup_station_check ==
    /\ su_pc = "loop"
    /\ su_i <= Len(su_cfg.stations)
    /\ setup_enabled(su_cfg.stations[su_i])
    /\ all_ready' = (all_ready /\ dir_ready(su_cfg.stations[su_i].data_dir))
    /\ IF ~ su_cfg.stations[su_i].out_exists /\ ~ su_cfg.writable
       THEN /\ su_pc' = "raised"
            /\ UNCHANGED <<su_i, created>>
       ELSE /\ created' = IF su_cfg.stations[su_i].out_exists
                          THEN created ELSE created \cup {su_i}
            /\ su_i' = su_i + 1
            /\ UNCHANGED su_pc
    /\ UNCHANGED <<su_cfg, su_result, sewage, analyzer, elevations>>

\* Lines 80-109: the rain data directory is checked, all_ready is returned.
setup_return ==
    /\ su_pc = "loop"
    /\ su_i > Len(su_cfg.stations)
    /\ all_ready' = (all_ready /\ dir_ready(su_cfg.rain))
    /\ su_result' = (all_ready /\ dir_ready(su_cfg.rain))
    /\ su_pc' = "returned"
    /\ UNCHANGED <<su_cfg, su_i, created, sewage, analyzer, elevations>>

InitSetup ==
    /\ su_cfg \in SetupConfigs
    /\ su_pc = "start"
    /\ su_i = 1
    /\ all_ready = TRUE
    /\ created = {}
    /\ su_result = FALSE
    /\ SewageIdle /\ AnalyzerIdle /\ ElevationsIdle

NextSetup ==
    \/ setup_no_config
    \/ setup_begin
    \/ setup_station_skip
    \/ setup_station_check
    \/ setup_return

SpecSetup == InitSetup /\ [][NextSetup]_vars

\* ---- properties ------------------------------------------------------------
Finished == pc \in {"returned", "done"}

IsJunction(n) == n \in G.nodes /\ degree(G, n) /= 2

IsPathNode(n) == n \in G.nodes /\ degree(G, n) = 2

InteriorOf(c) == {c.interior[i] : i \in 1..Len(c.interior)}

Interior == UNION {InteriorOf(c) : c \in chains}

\* One-based indices of the zero-based positions 0, 4, 8, ...
EveryFourth(N) == {i \in 1..N : \E k \in 0..N : i = 4 * k + 1}

RECURSIVE Reach(_)
Reach(S) ==
    LET T == S \cup {m \in G.nodes : \E n \in S : m \in SeqToSet(G.adj[n])}
    IN  IF T = S THEN S ELSE Reach(T)

\* The nodes in a connected component that has a Junction.
JunctionReach == Reach({n \in G.nodes : IsJunction(n)})

\* C1: when identify_necessary_manholes has returned, every node of the
\* graph whose degree is not 2 is in the returned set.
C1_JunctionsRetained ==
    Finished => \A n \in G.nodes : degree(G, n) /= 2 => n \in necessary_mh

C1_Witness ==
    /\ pc = "returned"
    /\ additional_mh /= {}
    /\ \E n \in G.nodes : degree(G, n) /= 2

\* C2: of a discovered chain with interior length N, the nodes in the
\* returned set are exactly those at zero-based positions 0, 4, 8, ...,
\* and there are ceil(N/4) of them.
C2_ChainSampling ==
    Finished =>
        \A c \in chains :
            LET N == Len(c.interior)
                kept == InteriorOf(c) \cap necessary_mh
            IN  /\ kept = {c.interior[i] : i \in EveryFourth(N)}
                /\ Cardinality(kept) = (N + 3) \div 4

C2_Witness ==
    /\ Finished
    /\ \E c \in chains : Len(c.interior) >= 9 /\ c.interior[9] \in necessary_mh

\* C3: two runs of the program on the same pipe table produce the same
\* returned set and the same filtered pipe rows.
C3_Deterministic ==
    (pc = "done" /\ run = 2) =>
        /\ necessary_mh_labels = first_run.labels
        /\ simplified_pipes_df = first_run.pipes

\* C4: no edge is marked consumed more than once over the whole pass.
C4_NoEdgeMarkedTwice ==
    \A e \in EdgeKeys : consumption[e] <= 1

C4_Witness ==
    /\ Finished
    /\ Cardinality(chains) >= 2
    /\ \E e \in EdgeKeys : consumption[e] = 1

\* C5 as stated: when the pass finishes, every edge of the graph has been
\* consumed exactly once.
C5_EveryEdgeConsumedOnce ==
    Finished => \A e \in edges(G) : consumption[e] = 1

\* C5 amended: when the pass finishes, an edge between two Junctions and an
\* edge of a component without a Junction has been consumed by no chain, and
\* every other edge of the graph by exactly one.
C5_ChainEdgesConsumedOnce ==
    Finished =>
        \A e \in edges(G) :
            consumption[e] =
                IF (IsJunction(e[1]) /\ IsJunction(e[2])) \/ e[1] \notin JunctionReach
                THEN 0 ELSE 1

C5_Witness ==
    /\ Finished
    /\ \E e \in edges(G) :
          /\ consumption[e] = 0
          /\ (IsJunction(e[1]) /\ IsJunction(e[2])) \/ e[1] \notin JunctionReach
    /\ \E e \in edges(G) : consumption[e] = 1

\* C6: when the pass finishes, the consumed edges are exactly the edges of
\* the graph with an endpoint that is an interior node of a discovered chain.
C6_ConsumedIsChainIncident ==
    Finished =>
        visited_chains = {e \in edges(G) : e[1] \in Interior \/ e[2] \in Interior}

C6_Witness ==
    /\ Finished
    /\ visited_chains /= {}
    /\ edges(G) \ visited_chains /= {}

\* C7: a chain is walked once: no node is appended to a chain twice, no node
\* is interior to two discovered chains, and when the for loop meets a
\* neighbour that is already interior to a chain, the edge to it is already
\* consumed, so no walk starts there.
C7_ChainWalkedOnce ==
    /\ \A n \in Labels : appended[n] <= 1
    /\ \A c1, c2 \in chains : c1 /= c2 => InteriorOf(c1) \cap InteriorOf(c2) = {}
    /\ (pc = "for_neighbor" /\ nbrs /= << >> /\ Head(nbrs) \in Interior)
          => sorted_pair(node, Head(nbrs)) \in visited_chains

\* The other end of a walked chain is met: a chain between two Junctions,
\* or one that came back to the Junction it started from.
C7_Witness ==
    /\ pc = "for_neighbor"
    /\ nbrs /= << >>
    /\ \E c \in chains :
          /\ c.terminal = node
          /\ Len(c.interior) >= 2
          /\ Head(nbrs) = c.interior[Len(c.interior)]
          /\ sorted_pair(node, Head(nbrs)) \in visited_chains

\* C8: the filtered pipe rows are exactly the rows of the pipe table with
\* both Start Node and Stop Node in the returned set.
C8_FilteredRows ==
    pc = "done" =>
        LET kept == {j \in 1..Len(pipes_df) :
                        pipes_df[j][1] \in necessary_mh_labels
                        /\ pipes_df[j][2] \in necessary_mh_labels}
        IN  /\ \A i \in 1..Len(simplified_pipes_df) :
                   \E j \in kept : pipes_df[j] = simplified_pipes_df[i]
            /\ \A j \in kept :
                   \E i \in 1..Len(simplified_pipes_df) :
                       simplified_pipes_df[i] = pipes_df[j]
            /\ Len(simplified_pipes_df) = Cardinality(kept)

C8_Witness ==
    /\ pc = "done"
    /\ simplified_pipes_df /= << >>
    /\ Len(simplified_pipes_df) < Len(pipes_df)

\* C9: the returned set is the Junctions together with the nodes at
\* zero-based positions 0, 4, 8, ... of the discovered chains, and holds
\* only nodes of the graph.
C9_NecessaryIsJunctionsAndSampled ==
    Finished =>
        /\ necessary_mh =
              {n \in G.nodes : IsJunction(n)}
              \cup {n \in G.nodes :
                      \E c \in chains :
                          \E i \in EveryFourth(Len(c.interior)) : c.interior[i] = n}
        /\ necessary_mh \subseteq G.nodes

C9_Witness ==
    /\ Finished
    /\ \E n \in necessary_mh : IsPathNode(n)
    /\ \E n \in Interior : n \notin necessary_mh

\* C10: on the path 1-2-3-4-5-6-7 one chain is discovered, its interior has
\* length 5, the returned set is {1, 2, 6, 7} and the filtered rows are the
\* pipes 1-2 and 6-7.
Path7 == {<<i, i + 1>> : i \in 1..6}

C10_WorkedExample ==
    (pc = "done" /\ edges(G) = Path7) =>
        /\ Cardinality(chains) = 1
        /\ \A c \in chains : Len(c.interior) = 5
        /\ necessary_mh_labels = {1, 2, 6, 7}
        /\ Len(simplified_pipes_df) = 2
        /\ {sorted_pair(simplified_pipes_df[i][1], simplified_pipes_df[i][2]) :
                i \in 1..Len(simplified_pipes_df)} = {<<1, 2>>, <<6, 7>>}

C10_Witness ==
    /\ pc = "done"
    /\ edges(G) = Path7
    /\ necessary_mh_labels /= {}

\* C11 as stated: identify_necessary_manholes completes on every pipe table
\* and returns without raising.
C11_NeverRaises == pc /= "raised"

\* C12 as stated: a manhole of the manhole table that no pipe row references
\* is in the returned set and in the simplified manhole rows.
Referenced == {pipes_df[i][1] : i \in 1..Len(pipes_df)}
              \cup {pipes_df[i][2] : i \in 1..Len(pipes_df)}

C12_IsolatedRetained ==
    pc = "done" =>
        \A i \in 1..Len(mh_df) :
            mh_df[i] \notin Referenced =>
                /\ mh_df[i] \in necessary_mh_labels
                /\ \E j \in 1..Len(simplified_mh_df) : simplified_mh_df[j] = mh_df[i]

\* C13 as stated: a pipe row with a missing endpoint adds no node and no
\* edge; the graph is the graph of the remaining rows.
HasEndpoints(row) == row[1] /= Null /\ row[2] /= Null

C13_NullRowRejected ==
    pc /= "main" =>
        /\ Null \notin G.nodes
        /\ G = from_pandas_edgelist(SelectSeq(pipes_df, HasEndpoints))

\* C14: a node in a component without a Junction is never in the returned
\* set, no edge at it is ever consumed and no filtered pipe row touches it.
C14_JunctionFreeLoopOmitted ==
    \A n \in G.nodes \ JunctionReach :
        /\ n \notin necessary_mh
        /\ n \notin additional_mh
        /\ \A e \in visited_chains : e[1] /= n /\ e[2] /= n
        /\ \A i \in 1..Len(simplified_pipes_df) :
               simplified_pipes_df[i][1] /= n /\ simplified_pipes_df[i][2] /= n

\* A table of closed loops only has run to its end with nothing returned.
C14_Witness ==
    /\ pc = "done"
    /\ G.nodes /= {}
    /\ JunctionReach = {}
    /\ \E n \in G.nodes : Len(G.adj[n]) = 2
    /\ necessary_mh_labels = {}

\* C15: the empty pipe table gives the empty returned set and no error.
C15_EmptyInput ==
    pipes_df = << >> =>
        /\ pc /= "raised"
        /\ Finished => necessary_mh = {}
        /\ pc = "done" => necessary_mh_labels = {}

C15_Witness ==
    /\ pc = "done"
    /\ pipes_df = << >>
    /\ G.nodes = {}

\* C16: when no node of the graph has degree 2, no chain is discovered, no
\* edge is consumed and the returned set is the set of all nodes.
C16_AllJunctions ==
    (pc /= "main" /\ \A n \in G.nodes : degree(G, n) /= 2) =>
        /\ chains = {}
        /\ visited_chains = {}
        /\ pc /= "while"
        /\ Finished => necessary_mh = G.nodes

C16_Witness ==
    /\ pc = "returned"
    /\ Cardinality(G.nodes) >= 2
    /\ \A n \in G.nodes : degree(G, n) /= 2

\* C17 as stated: a node is treated as a PathNode (left out of the junction
\* set the loop iterates) if and only if it has exactly two distinct
\* neighbours.
DistinctNeighbors(n) == Cardinality(SeqToSet(G.adj[n]))

C17_DegreeIsNeighborCount ==
    pc \in {"for_node", "for_neighbor", "while"} =>
        \A n \in G.nodes : (n \notin necessary_mh) <=> (DistinctNeighbors(n) = 2)

\* C18: a last row that repeats an earlier pipe, in either orientation,
\* leaves the graph and every degree as they are without it, and what is
\* returned is one of the sets the function can return without it.
WithoutLast == SubSeq(pipes_df, 1, Len(pipes_df) - 1)

C18_DuplicateIdempotent ==
    pc /= "main" =>
        LET g0 == from_pandas_edgelist(WithoutLast)
        IN  /\ G = g0
            /\ \A n \in Keys : degree(G, n) = degree(g0, n)
            /\ pc = "returned" => necessary_mh \in possible_results(g0)

C18_Witness ==
    /\ pc = "returned"
    /\ additional_mh /= {}
    /\ \E i \in 1..(Len(pipes_df) - 1) :
          pipes_df[Len(pipes_df)] = Flip(pipes_df[i]) /\ pipes_df[i][1] /= pipes_df[i][2]

\* C19: along a discovered chain with its two terminals, any four
\* consecutive nodes include one of the returned set.
WithTerminals(c) == << c.origin >> \o c.interior \o << c.terminal >>

C19_AtMostThreeSkipped ==
    Finished =>
        \A c \in chains :
            \A i \in 1..(Len(WithTerminals(c)) - 3) :
                \E j \in i..(i + 3) : WithTerminals(c)[j] \in necessary_mh

\* A chain with three consecutive nodes left out.
C19_Witness ==
    /\ Finished
    /\ \E c \in chains :
          /\ Len(c.interior) >= 4
          /\ \A j \in 2..4 : c.interior[j] \notin necessary_mh

\* C20: a walk standing on a degree-2 node has exactly one neighbour other
\* than prev, and every discovered chain ends at a node of degree other
\* than 2.
C20_OneWayOn ==
    /\ (pc = "while" /\ degree(G, curr) = 2)
          => Len(next_node_options(G, curr, prev)) = 1
    /\ \A c \in chains : degree(G, c.terminal) /= 2

C20_Witness ==
    /\ pc = "while"
    /\ degree(G, curr) = 2
    /\ Len(chain) >= 2
    /\ chains /= {}

\* ---- the chain pass as a whole ----------------------------------------------
Adjacent(a, b) == b \in SeqToSet(G.adj[a])

\* C21: every discovered chain is a non-empty sequence of pairwise distinct
\* path nodes; its first node is adjacent to the junction the walk started
\* from, consecutive nodes are adjacent, and its last node is adjacent to a
\* junction, the terminal.
C21_ChainShape ==
    \A c \in chains :
        LET n == Len(c.interior)
        IN  /\ n >= 1
            /\ \A i \in 1..n : IsPathNode(c.interior[i])
            /\ \A i, j \in 1..n : i /= j => c.interior[i] /= c.interior[j]
            /\ IsJunction(c.origin)
            /\ IsJunction(c.terminal)
            /\ n >= 1 => /\ Adjacent(c.origin, c.interior[1])
                         /\ Adjacent(c.interior[n], c.terminal)
            /\ \A i \in 1..(n - 1) : Adjacent(c.interior[i], c.interior[i + 1])

C21_Witness ==
    \E c \in chains : Len(c.interior) >= 3 /\ c.origin /= c.terminal

ChainsThrough(n) == {c \in chains : n \in InteriorOf(c)}

\* C22: after the pass, every path node in a connected component that has a
\* junction is an interior node of exactly one discovered chain.
C22_PathNodeInOneChain ==
    Finished =>
        \A n \in JunctionReach : IsPathNode(n) => Cardinality(ChainsThrough(n)) = 1

C22_Witness ==
    /\ pc = "done"
    /\ \E n \in JunctionReach : IsPathNode(n) /\ appended[n] = 1
    /\ \E n \in G.nodes : IsPathNode(n) /\ n \notin JunctionReach

InPass == pc \in {"for_node", "for_neighbor", "while"}

\* C23: while the chain pass runs, the graph and the junction set the outer
\* for iterates stay as they are; the sampled nodes gather in additional_mh
\* and reach the result in the one step taken after every junction was visited.
C23_PassFrame ==
    [][InPass =>
          /\ G' = G
          /\ necessary_mh' /= necessary_mh =>
                 /\ pc = "for_node"
                 /\ pending = {}
                 /\ pc' = "returned"
                 /\ necessary_mh' = necessary_mh \cup additional_mh]_vars

C23_Witness ==
    /\ pc = "for_neighbor"
    /\ pending /= {}
    /\ additional_mh /= {}
    /\ additional_mh \cap necessary_mh = {}

\* C24: at every step the set of consumed edges and the sets of retained
\* nodes only grow.
C24_OnlyGrow ==
    [][/\ visited_chains \subseteq visited_chains'
       /\ additional_mh \subseteq additional_mh'
       /\ necessary_mh \subseteq necessary_mh']_vars

C24_Witness ==
    /\ pc = "returned"
    /\ Cardinality(visited_chains) >= 3
    /\ additional_mh /= {}
    /\ additional_mh \subseteq necessary_mh

\* C25: for one pipe table, two runs that visit the junctions in any two
\* orders end with the same set of consumed edges and with the same number
\* of retained nodes.
C25_OrderIndependent ==
    (run = 2 /\ Finished) =>
        /\ visited_chains = first_run.consumed
        /\ Cardinality(necessary_mh) = Cardinality(first_run.labels)

C25_Witness ==
    /\ run = 2
    /\ pc = "done"
    /\ necessary_mh_labels /= first_run.labels
    /\ visited_chains /= {}

\* C26: every call starts with an empty consumed set and an empty sampled
\* set, and what it returns is fixed by the pipe table and the order in which
\* the junctions were visited, in the first run and in the second.
C26_NoCarriedState ==
    /\ (pc = "for_node" /\ pending = necessary_mh) =>
           (visited_chains = {} /\ additional_mh = {})
    /\ Finished => necessary_mh = result_for_order(G, order)

C26_Witness ==
    /\ run = 2
    /\ pc = "returned"
    /\ first_run.consumed /= {}
    /\ additional_mh /= {}

\* C27: the pipe table never changes; original_pipes.csv and both plots get
\* every row of it, both plots draw the same rows (those whose two endpoints
\* are in the manhole table), and only the manholes shown differ: the
\* simplified plot shows those of the returned set.
C27_PipesUntouched ==
    [][/\ pipes_df' = pipes_df
       /\ pc' = "done" =>
              /\ original_pipes_csv' = pipes_df
              /\ plots'[1].plot_pipes_df = pipes_df
              /\ plots'[2].plot_pipes_df = pipes_df
              /\ plots'[1].lines = drawn_pipes(pipes_df, mh_df)
              /\ plots'[2].lines = plots'[1].lines
              /\ plots'[1].manholes = SeqToSet(mh_df)
              /\ plots'[2].manholes = SeqToSet(mh_df) \cap necessary_mh]_vars

C27_Witness ==
    /\ pc = "done"
    /\ simplified_pipes_df /= pipes_df
    /\ plots[2].manholes /= plots[1].manholes
    /\ plots[1].lines /= pipes_df

\* ---- the station analyzer ----------------------------------------------------
Enabled(i) == stations[i].enabled /= "false"

HasMonth(i) ==
    /\ stations[i].data.dir = "listed"
    /\ \E k \in 1..Len(stations[i].data.files) : stations[i].data.files[k] = "ok"

Excepts(i) ==
    \/ stations[i].data.dir = "unreadable"
    \/ HasMonth(i) /\ stations[i].fails

StationSeq == [i \in 1..Len(stations) |-> i]

C29_LookupNeverRaises ==
    /\ el_pc /= "raised"
    /\ \A k \in 1..Len(lookups) :
          /\ lookups[k].index = k
          /\ el_rows[k].resp.kind /= "value" => lookups[k].elevation = None
          /\ lookups[k].elevation = None => elevation_col[k] = el_rows[k].old
    /\ el_pc = "returned" => Len(lookups) = Len(el_rows)

C29_Witness ==
    /\ el_pc = "returned"
    /\ Len(lookups) = 2
    /\ raises_in_try(el_rows[1].resp)
    /\ lookups[1].elevation = None
    /\ elevation_col[1] = OldElevation
    /\ elevation_col[2] = 0

\* ---- the setup script ----------------------------------------------------------
SetupEnabled(i) == su_cfg.stations[i].enabled /= "false"

\* C30: with the configuration file present, setup_station_directories
\* returns True exactly when the data directory of every enabled station and
\* the rain data directory exist and can be listed; no output directory is
\* made for a disabled station.
C30_SetupResult ==
    /\ (su_pc = "returned" /\ su_cfg.present) =>
           (su_result <=>
                /\ \A i \in 1..Len(su_cfg.stations) :
                       SetupEnabled(i) => su_cfg.stations[i].data_dir = "ok"
                /\ su_cfg.rain = "ok")
    /\ \A i \in 1..Len(su_cfg.stations) : ~ SetupEnabled(i) => i \notin created

C30_Witness ==
    /\ su_pc = "returned"
    /\ su_result
    /\ \E i \in 1..Len(su_cfg.stations) :
          ~ SetupEnabled(i) /\ su_cfg.stations[i].data_dir = "missing"
    /\ \E i \in 1..Len(su_cfg.stations) : SetupEnabled(i) /\ i \in created

====
